---- MODULE Spec2Model ----
(***************************************************************************)
(* Library back end: the request handlers of bookController.js and         *)
(* circulationController.js over the document store (Book, BookCopy,       *)
(* Transaction).  Every `await` of a handler is one step: the database     *)
(* call takes effect atomically and the synchronous code after it runs up  *)
(* to the next call.  Requests interleave between steps.  A database call  *)
(* may throw instead of taking effect.                                     *)
(***************************************************************************)
EXTENDS Integers, Sequences, FiniteSets, TLC

\* ------------------------------------------------------------------ bounds
MaxReq == 3              \* request slots: requests in progress at once
MaxStarted == 2          \* requests begun per behaviour, when one at a time
MaxFaults == 1           \* database calls that throw, per behaviour
MaxRows == 1             \* rows of an uploaded CSV file
MaxQuantity == 2         \* largest quantity / count of one request
MaxBooksPerStudent == 1  \* SystemConfig.maxBooksPerStudent
FinePerDay == 2          \* SystemConfig.finePerDay
IssueDaysLimit == 1      \* SystemConfig.issueDaysLimit
MaxDays == 4             \* the clock stops after this many days
FallBackDay == 2         \* local day on which the "dst" zone leaves summer time

VARIABLES
    books,     \* Book documents: [id, isbn, totalCopies, availableCopies]
    copies,    \* BookCopy documents: [id, book, copyNumber, status]
    txns,      \* Transaction documents
    nextId,    \* next fresh _id
    reqs,      \* request slot -> the handler running in it
    started,   \* requests begun so far
    faults,    \* database calls that have thrown
    now,       \* the clock, in hours since the epoch
    tz,        \* the host's time zone: "fixed" or "dst"
    seq,       \* TRUE when the requests arrive one at a time
    pre,       \* the store when the request in progress began (when seq)
    collected  \* ids of the transactions on which collectFine has succeeded

vars == <<books, copies, txns, nextId, reqs, started, faults, now, tz, seq, pre, collected>>
\* what a step of a handler leaves alone
ctl == <<started, faults, now, tz, seq, pre, collected>>

Slots == 1..MaxReq
Store == [books |-> books, copies |-> copies, txns |-> txns]

\* ------------------------------------------------------------- documents
\* copyNumber is `${isbn}-${n}`: the pair of its two parts.
CopyNumber(isbn, n) == <<isbn, n>>
NoCopy == <<0, 0>>
NoDate == 0 - 1

\* SystemConfig.findOne(): the one configuration document.
config ==
    [maxBooksPerStudent |-> MaxBooksPerStudent,
     finePerDay |-> FinePerDay,
     issueDaysLimit |-> IssueDaysLimit]

\* User collection: students 1 and 2 are active, 3 is blocked, 4 does not exist.
Users == [s \in 1..3 |-> [isActive |-> s < 3]]
StudentIds == 1..4

\* Department collection: code 1 exists, code 2 does not.
Departments == {1}

BookById(id) == {b \in books : b.id = id}
BookByIsbn(isbn) == {b \in books : b.isbn = isbn}
CopyById(id) == {c \in copies : c.id = id}
CopyByNumber(num) == {c \in copies : c.copyNumber = num}
TxnById(id) == {t \in txns : t.id = id}

\* Book.findByIdAndUpdate(id, { $inc: { availableCopies: d } })
IncAvailable(bs, id, d) ==
    {IF b.id = id THEN [b EXCEPT !.availableCopies = @ + d] ELSE b : b \in bs}

\* BookCopy update of one document's status
SetCopyStatus(cs, id, st) ==
    {IF c.id = id THEN [c EXCEPT !.status = st] ELSE c : c \in cs}

\* ------------------------------------------------------------------ dates
\* The "dst" zone is one hour ahead until its fall-back instant, local 02:00
\* of FallBackDay; the "fixed" zone has offset 0 throughout.
FallBack == 24 * FallBackDay + 1
LocalOffset(z, t) == IF z = "dst" /\ t < FallBack THEN 1 ELSE 0
\* the instant of a local wall-clock time (the earlier one when it occurs twice)
FromLocal(z, w) == IF z = "dst" /\ w - 1 < FallBack THEN w - 1 ELSE w
LocalDay(z, t) == (t + LocalOffset(z, t)) \div 24
\* date.setHours(0, 0, 0, 0)
SetHoursZero(z, t) == FromLocal(z, 24 * LocalDay(z, t))
\* date.setDate(date.getDate() + n)
SetDatePlus(z, t, n) == FromLocal(z, t + LocalOffset(z, t) + 24 * n)
\* Math.ceil(x / y) for x >= 0, y > 0
Ceil(x, y) == (x + y - 1) \div y
MsPerDay == 24

\* returnBook's fine for a return at instant today of a loan due at instant due
ComputeFine(z, today, due) ==
    LET todayMidnight == SetHoursZero(z, today)
        dueMidnight == SetHoursZero(z, due)
    IN  IF todayMidnight > dueMidnight
        THEN Ceil(todayMidnight - dueMidnight, MsPerDay) * config.finePerDay
        ELSE 0

\* --------------------------------------------------------------- requests
A0 ==
    [student |-> 0, copyId |-> NoCopy, isbn |-> 0, id |-> 0, status |-> "",
     n |-> 0, dept |-> 0, ids |-> {}, rows |-> <<>>]
L0 ==
    [book |-> 0, total |-> 0, avail |-> 0, cstatus |-> "", cnum |-> NoCopy,
     txn |-> 0, due |-> 0, fine |-> 0, rdate |-> 0, isbn |-> 0,
     dirtyA |-> FALSE, copy |-> 0, row |-> 0, i |-> 0, ins |-> <<>>]

Idle == [op |-> "none", pc |-> "idle", resp |-> 0, sent |-> 0, a |-> A0, l |-> L0]
NewReq(op, pc, a) == [op |-> op, pc |-> pc, resp |-> 0, sent |-> 0, a |-> a, l |-> L0]

\* res.status(code).json(...) followed by the handler's return
Done(q, code) == [q EXCEPT !.pc = "done", !.resp = code, !.sent = @ + 1, !.l = L0]
\* the handler's promise rejects with nothing sent
Crashed(q) == [q EXCEPT !.pc = "crashed", !.l = L0]

Free(r) == reqs[r].pc \in {"idle", "done", "crashed"}
Quiet == \A r \in Slots : Free(r)

\* a request arrives in slot r: when seq, one at a time, MaxStarted of them in
\* all; otherwise each slot serves one request
Arrive(r) ==
    /\ IF seq THEN Quiet /\ r = 1 /\ started < MaxStarted ELSE reqs[r].pc = "idle"
    /\ started' = started + 1
    /\ pre' = IF seq THEN Store ELSE pre
    /\ UNCHANGED <<books, copies, txns, nextId, faults, now, tz, seq, collected>>

Begin(r, op, pc, a) ==
    /\ Arrive(r)
    /\ reqs' = [reqs EXCEPT ![r] = NewReq(op, pc, a)]

\* a row is [isbn, dept, n]; isbn 0 is a row without ISBN or Title
RowValid(row) == row.isbn # 0 /\ row.dept \in Departments
\* the loop over the rows from row k on: invalid rows are skipped; the handler
\* answers after the last row
RowLoop(q, k) ==
    LET ok == {j \in k..Len(q.a.rows) : RowValid(q.a.rows[j])}
    IN  IF ok = {} THEN Done(q, 200)
        ELSE [q EXCEPT !.pc = "up_find",
                       !.l = [L0 EXCEPT !.row = CHOOSE j \in ok : \A m \in ok : j <= m]]

\* the catch block a throw at q's step reaches
Catch(q) ==
    IF q.op = "issueBook"
    THEN IF q.pc = "i_rollback" THEN Crashed(q)
         ELSE IF q.a.copyId # NoCopy THEN [q EXCEPT !.pc = "i_rollback", !.l = L0]
         ELSE Done(q, 500)
    ELSE IF q.op = "uploadBookCSV"
    THEN IF q.pc = "up_depts" THEN Crashed(q) ELSE RowLoop(q, q.l.row + 1)
    ELSE Done(q, 500)

\* ------------------------------------------------------------- issueBook
StartIssue(r, s, cn, isbn) ==
    Begin(r, "issueBook", "i_config", [A0 EXCEPT !.student = s, !.copyId = cn, !.isbn = isbn])

IssueConfig(r) ==
    /\ reqs[r].pc = "i_config"
    /\ reqs' = [reqs EXCEPT ![r].pc = "i_student"]
    /\ UNCHANGED <<books, copies, txns, nextId, ctl>>

IssueStudent(r) ==
    LET q == reqs[r] IN
    /\ q.pc = "i_student"
    /\ reqs' = [reqs EXCEPT ![r] =
            IF q.a.student \notin DOMAIN Users THEN Done(q, 404)
            ELSE IF ~Users[q.a.student].isActive THEN Done(q, 400)
            ELSE [q EXCEPT !.pc = "i_count"]]
    /\ UNCHANGED <<books, copies, txns, nextId, ctl>>

ActiveCount(s) == Cardinality({t \in txns : t.student = s /\ t.status = "Issued"})

IssueCount(r) ==
    LET q == reqs[r] IN
    /\ q.pc = "i_count"
    /\ reqs' = [reqs EXCEPT ![r] =
            IF ActiveCount(q.a.student) >= config.maxBooksPerStudent THEN Done(q, 400)
            ELSE [q EXCEPT !.pc = IF q.a.copyId # NoCopy THEN "i_mark" ELSE "i_book"]]
    /\ UNCHANGED <<books, copies, txns, nextId, ctl>>

\* the filter of findOneAndUpdate({ copyNumber: copyId, status: 'Available' })
IssueFilterCopy(c, q) == c.copyNumber = q.a.copyId /\ c.status = "Available"
\* the filter of findOneAndUpdate({ book: book._id, status: 'Available' })
IssueFilterBook(c, q) == c.book = q.l.book /\ c.status = "Available"

\* a variant of IssueTake that writes the status before looking at the old one:
\* findOneAndUpdate({ copyNumber }, { status: 'Issued' }), then the 400 when the
\* copy was not Available
IssueTakeUnfiltered(r, m, code) ==
    LET q == reqs[r] IN
    IF m = {}
    THEN /\ reqs' = [reqs EXCEPT ![r] = Done(q, code)]
         /\ copies' = {IF c.copyNumber = q.a.copyId THEN [c EXCEPT !.status = "Issued"] ELSE c
                         : c \in copies}
    ELSE \E c \in m :
         /\ copies' = SetCopyStatus(copies, c.id, "Issued")
         /\ reqs' = [reqs EXCEPT ![r].pc = "i_dec", ![r].l.book = c.book,
                                 ![r].l.cnum = c.copyNumber]

\* findOneAndUpdate(filter, { status: 'Issued' }, { new: true }) over the matches m
IssueTake(r, m, code) ==
    LET q == reqs[r] IN
    IF m = {}
    THEN /\ reqs' = [reqs EXCEPT ![r] = Done(q, code)]
         /\ UNCHANGED copies
    ELSE \E c \in m :
         /\ copies' = SetCopyStatus(copies, c.id, "Issued")
         /\ reqs' = [reqs EXCEPT ![r].pc = "i_dec", ![r].l.book = c.book,
                                 ![r].l.cnum = c.copyNumber]

IssueMark(r) ==
    /\ reqs[r].pc = "i_mark"
    /\ IssueTake(r, {c \in copies : IssueFilterCopy(c, reqs[r])}, 400)
    /\ UNCHANGED <<books, txns, nextId, ctl>>

IssueFindBook(r) ==
    LET q == reqs[r]
        m == BookByIsbn(q.a.isbn)
    IN  /\ q.pc = "i_book"
        /\ IF m = {}
           THEN reqs' = [reqs EXCEPT ![r] = Done(q, 404)]
           ELSE \E b \in m : reqs' = [reqs EXCEPT ![r].pc = "i_markisbn", ![r].l.book = b.id]
        /\ UNCHANGED <<books, copies, txns, nextId, ctl>>

IssueMarkIsbn(r) ==
    /\ reqs[r].pc = "i_markisbn"
    /\ IssueTake(r, {c \in copies : IssueFilterBook(c, reqs[r])}, 400)
    /\ UNCHANGED <<books, txns, nextId, ctl>>

IssueDec(r) ==
    /\ reqs[r].pc = "i_dec"
    /\ books' = IncAvailable(books, reqs[r].l.book, 0 - 1)
    /\ reqs' = [reqs EXCEPT ![r].pc = "i_create",
                            ![r].l.due = SetDatePlus(tz, now, config.issueDaysLimit)]
    /\ UNCHANGED <<copies, txns, nextId, ctl>>

IssueCreate(r) ==
    LET q == reqs[r] IN
    /\ q.pc = "i_create"
    /\ txns' = txns \cup
            {[id |-> nextId, student |-> q.a.student, book |-> q.l.book,
              copyId |-> q.l.cnum, dueDate |-> q.l.due, status |-> "Issued",
              fine |-> 0, isFinePaid |-> FALSE, returnDate |-> NoDate]}
    /\ nextId' = nextId + 1
    /\ reqs' = [reqs EXCEPT ![r] = Done(q, 201)]
    /\ UNCHANGED <<books, copies, ctl>>

\* the catch block: findOneAndUpdate({ copyNumber: req.body.copyId }, { status: 'Available' })
IssueRollback(r) ==
    LET q == reqs[r] IN
    /\ q.pc = "i_rollback"
    /\ copies' = {IF c.copyNumber = q.a.copyId THEN [c EXCEPT !.status = "Available"] ELSE c
                    : c \in copies}
    /\ reqs' = [reqs EXCEPT ![r] = Done(q, 500)]
    /\ UNCHANGED <<books, txns, nextId, ctl>>

\* ------------------------------------------------------------ returnBook
StartReturn(r, cn) ==
    Begin(r, "returnBook", "r_config", [A0 EXCEPT !.copyId = cn])

ReturnConfig(r) ==
    /\ reqs[r].pc = "r_config"
    /\ reqs' = [reqs EXCEPT ![r].pc = "r_txn"]
    /\ UNCHANGED <<books, copies, txns, nextId, ctl>>

ReturnFindTxn(r) ==
    LET q == reqs[r]
        m == {t \in txns : t.copyId = q.a.copyId /\ t.status = "Issued"}
    IN  /\ q.pc = "r_txn"
        /\ IF m = {}
           THEN reqs' = [reqs EXCEPT ![r].pc = "r_check"]
           ELSE \E t \in m :
                reqs' = [reqs EXCEPT ![r].pc = "r_save", ![r].l.txn = t.id,
                                     ![r].l.fine = ComputeFine(tz, now, t.dueDate),
                                     ![r].l.rdate = now]
        /\ UNCHANGED <<books, copies, txns, nextId, ctl>>

ReturnCheck(r) ==
    LET q == reqs[r]
        m == CopyByNumber(q.a.copyId)
    IN  /\ q.pc = "r_check"
        /\ reqs' = [reqs EXCEPT ![r] =
                IF \E c \in m : c.status = "Available" THEN Done(q, 400) ELSE Done(q, 404)]
        /\ UNCHANGED <<books, copies, txns, nextId, ctl>>

ReturnSave(r) ==
    LET q == reqs[r] IN
    /\ q.pc = "r_save"
    /\ txns' = {IF t.id = q.l.txn
                THEN [t EXCEPT !.returnDate = q.l.rdate, !.status = "Returned",
                               !.fine = q.l.fine, !.isFinePaid = (q.l.fine = 0)]
                ELSE t : t \in txns}
    /\ reqs' = [reqs EXCEPT ![r].pc = "r_copy"]
    /\ UNCHANGED <<books, copies, nextId, ctl>>

ReturnCopy(r) ==
    LET q == reqs[r] IN
    /\ q.pc = "r_copy"
    /\ copies' = {IF c.copyNumber = q.a.copyId THEN [c EXCEPT !.status = "Available"] ELSE c
                    : c \in copies}
    /\ reqs' = [reqs EXCEPT ![r].pc = "r_find"]
    /\ UNCHANGED <<books, txns, nextId, ctl>>

ReturnFindCopy(r) ==
    LET q == reqs[r]
        m == CopyByNumber(q.a.copyId)
    IN  /\ q.pc = "r_find"
        /\ IF m = {}
           THEN reqs' = [reqs EXCEPT ![r] = Catch(q)]
           ELSE \E c \in m : reqs' = [reqs EXCEPT ![r].pc = "r_inc", ![r].l.book = c.book]
        /\ UNCHANGED <<books, copies, txns, nextId, ctl>>

ReturnInc(r) ==
    LET q == reqs[r] IN
    /\ q.pc = "r_inc"
    /\ books' = IncAvailable(books, q.l.book, 1)
    /\ reqs' = [reqs EXCEPT ![r] = Done(q, 200)]
    /\ UNCHANGED <<copies, txns, nextId, ctl>>

\* ------------------------------------------------------------ insertMany
\* BookCopy.insertMany(docs), ordered, for the copies isbn-ns[1], isbn-ns[2], ... of
\* book b: documents are inserted in order up to the first one whose copyNumber
\* is already taken (the unique index; error E11000).
Taken == {c.copyNumber : c \in copies}
InsertedCount(isbn, ns) ==
    LET dup == {j \in 1..Len(ns) : CopyNumber(isbn, ns[j]) \in Taken}
    IN  IF dup = {} THEN Len(ns) ELSE (CHOOSE j \in dup : \A k \in dup : j <= k) - 1
InsertMany(b, isbn, ns) ==
    /\ copies' = copies \cup
            {[id |-> nextId + j - 1, book |-> b, copyNumber |-> CopyNumber(isbn, ns[j]),
              status |-> "Available"] : j \in 1..InsertedCount(isbn, ns)}
    /\ nextId' = nextId + InsertedCount(isbn, ns)
InsertThrows(isbn, ns) == InsertedCount(isbn, ns) < Len(ns)
Range(lo, n) == [j \in 1..n |-> lo + j - 1]

\* ------------------------------------------------------------ createBook
StartCreate(r, isbn, dept, n) ==
    Begin(r, "createBook", "c_dept", [A0 EXCEPT !.isbn = isbn, !.dept = dept, !.n = n])

CreateDept(r) ==
    LET q == reqs[r] IN
    /\ q.pc = "c_dept"
    /\ reqs' = [reqs EXCEPT ![r] =
            IF q.a.dept \notin Departments THEN Done(q, 400) ELSE [q EXCEPT !.pc = "c_isbn"]]
    /\ UNCHANGED <<books, copies, txns, nextId, ctl>>

CreateIsbn(r) ==
    LET q == reqs[r] IN
    /\ q.pc = "c_isbn"
    /\ reqs' = [reqs EXCEPT ![r] =
            IF BookByIsbn(q.a.isbn) # {} THEN Done(q, 400) ELSE [q EXCEPT !.pc = "c_save"]]
    /\ UNCHANGED <<books, copies, txns, nextId, ctl>>

CreateSave(r) ==
    LET q == reqs[r] IN
    /\ q.pc = "c_save"
    /\ IF BookByIsbn(q.a.isbn) # {}
       THEN /\ reqs' = [reqs EXCEPT ![r] = Catch(q)]
            /\ UNCHANGED <<books, nextId>>
       ELSE /\ books' = books \cup
                    {[id |-> nextId, isbn |-> q.a.isbn, totalCopies |-> q.a.n,
                      availableCopies |-> q.a.n]}
            /\ nextId' = nextId + 1
            /\ reqs' = [reqs EXCEPT ![r].pc = "c_copies", ![r].l.book = nextId]
    /\ UNCHANGED <<copies, txns, ctl>>

CreateCopies(r) ==
    LET q == reqs[r]
        ns == Range(1, q.a.n)
    IN  /\ q.pc = "c_copies"
        /\ InsertMany(q.l.book, q.a.isbn, ns)
        /\ reqs' = [reqs EXCEPT ![r] =
                IF InsertThrows(q.a.isbn, ns) THEN Catch(q) ELSE Done(q, 201)]
        /\ UNCHANGED <<books, txns, ctl>>

\* ------------------------------------------------------------ updateBook
StartUpdateBook(r, id, dept) ==
    Begin(r, "updateBook", IF dept # 0 THEN "u_dept" ELSE "u_update",
          [A0 EXCEPT !.id = id, !.dept = dept])

UpdateDept(r) ==
    LET q == reqs[r] IN
    /\ q.pc = "u_dept"
    /\ reqs' = [reqs EXCEPT ![r] =
            IF q.a.dept \notin Departments THEN Done(q, 400) ELSE [q EXCEPT !.pc = "u_update"]]
    /\ UNCHANGED <<books, copies, txns, nextId, ctl>>

\* findByIdAndUpdate(id, { title, author, department }): none of the fields kept here
UpdateBook(r) ==
    /\ reqs[r].pc = "u_update"
    /\ reqs' = [reqs EXCEPT ![r] = Done(reqs[r], 200)]
    /\ UNCHANGED <<books, copies, txns, nextId, ctl>>

\* ------------------------------------------- deleteBook, bulkDeleteBooks
StartDeleteBook(r, id) ==
    Begin(r, "deleteBook", "d_copies", [A0 EXCEPT !.ids = {id}])

StartBulkDelete(r, ids) ==
    /\ ids # {}
    /\ Begin(r, "bulkDeleteBooks", "d_copies", [A0 EXCEPT !.ids = ids])

\* if (!bookIds || bookIds.length === 0): answered before any database call
BulkDeleteNone(r) ==
    /\ Arrive(r)
    /\ reqs' = [reqs EXCEPT ![r] = Done(NewReq("bulkDeleteBooks", "done", A0), 400)]

DeleteCopiesOf(r) ==
    LET q == reqs[r] IN
    /\ q.pc = "d_copies"
    /\ copies' = {c \in copies : c.book \notin q.a.ids}
    /\ reqs' = [reqs EXCEPT ![r].pc = "d_book"]
    /\ UNCHANGED <<books, txns, nextId, ctl>>

DeleteBooks(r) ==
    LET q == reqs[r] IN
    /\ q.pc = "d_book"
    /\ books' = {b \in books : b.id \notin q.a.ids}
    /\ reqs' = [reqs EXCEPT ![r] = Done(q, 200)]
    /\ UNCHANGED <<copies, txns, nextId, ctl>>

\* ---------------------------------------------------------- uploadBookCSV
StartUpload(r, rows) ==
    Begin(r, "uploadBookCSV", "up_depts", [A0 EXCEPT !.rows = rows])

\* if (!req.file)
UploadNoFile(r) ==
    /\ Arrive(r)
    /\ reqs' = [reqs EXCEPT ![r] = Done(NewReq("uploadBookCSV", "done", A0), 400)]

UploadDepts(r) ==
    /\ reqs[r].pc = "up_depts"
    /\ reqs' = [reqs EXCEPT ![r] = RowLoop(reqs[r], 1)]
    /\ UNCHANGED <<books, copies, txns, nextId, ctl>>

\* after the book of the row is known: the loop over the copy numbers begins, or,
\* with quantity 0, the row ends
UploadCopiesLoop(q) ==
    IF q.a.rows[q.l.row].n > 0 THEN [q EXCEPT !.pc = "up_exists"]
    ELSE RowLoop(q, q.l.row + 1)

UploadFind(r) ==
    LET q == reqs[r]
        m == BookByIsbn(q.a.rows[q.l.row].isbn)
    IN  /\ q.pc = "up_find"
        /\ IF m = {}
           THEN reqs' = [reqs EXCEPT ![r].pc = "up_new"]
           ELSE \E b \in m :
                reqs' = [reqs EXCEPT ![r] =
                    UploadCopiesLoop([q EXCEPT !.l.book = b.id, !.l.total = b.totalCopies,
                                               !.l.avail = b.availableCopies])]
        /\ UNCHANGED <<books, copies, txns, nextId, ctl>>

UploadNew(r) ==
    LET q == reqs[r]
        isbn == q.a.rows[q.l.row].isbn
    IN  /\ q.pc = "up_new"
        /\ IF BookByIsbn(isbn) # {}
           THEN /\ reqs' = [reqs EXCEPT ![r] = RowLoop(q, q.l.row + 1)]
                /\ UNCHANGED <<books, nextId>>
           ELSE /\ books' = books \cup
                        {[id |-> nextId, isbn |-> isbn, totalCopies |-> 0,
                          availableCopies |-> 0]}
                /\ nextId' = nextId + 1
                /\ reqs' = [reqs EXCEPT ![r] = UploadCopiesLoop([q EXCEPT !.l.book = nextId])]
        /\ UNCHANGED <<copies, txns, ctl>>

UploadExists(r) ==
    LET q == reqs[r]
        row == q.a.rows[q.l.row]
        num == q.l.total + 1 + q.l.i
        ins == IF CopyByNumber(CopyNumber(row.isbn, num)) = {}
               THEN Append(q.l.ins, num) ELSE q.l.ins
    IN  /\ q.pc = "up_exists"
        /\ reqs' = [reqs EXCEPT ![r] =
                IF q.l.i + 1 < row.n THEN [q EXCEPT !.l.i = @ + 1, !.l.ins = ins]
                ELSE IF Len(ins) > 0 THEN [q EXCEPT !.pc = "up_insert", !.l.ins = ins]
                ELSE RowLoop(q, q.l.row + 1)]
        /\ UNCHANGED <<books, copies, txns, nextId, ctl>>

UploadInsert(r) ==
    LET q == reqs[r]
        isbn == q.a.rows[q.l.row].isbn
    IN  /\ q.pc = "up_insert"
        /\ InsertMany(q.l.book, isbn, q.l.ins)
        /\ reqs' = [reqs EXCEPT ![r] =
                IF InsertThrows(isbn, q.l.ins) THEN RowLoop(q, q.l.row + 1)
                ELSE [q EXCEPT !.pc = "up_save", !.l.total = @ + Len(q.l.ins),
                               !.l.avail = @ + Len(q.l.ins)]]
        /\ UNCHANGED <<books, txns, ctl>>

\* book.save() of a loaded document: $set of the modified fields by _id; it throws
\* DocumentNotFoundError when the document is gone
UploadSave(r) ==
    LET q == reqs[r] IN
    /\ q.pc = "up_save"
    /\ books' = {IF b.id = q.l.book
                 THEN [b EXCEPT !.totalCopies = q.l.total, !.availableCopies = q.l.avail]
                 ELSE b : b \in books}
    /\ reqs' = [reqs EXCEPT ![r] = RowLoop(q, q.l.row + 1)]
    /\ UNCHANGED <<copies, txns, nextId, ctl>>

\* ------------------------------------------------------------- addCopies
StartAddCopies(r, id, n) ==
    Begin(r, "addCopies", "a_find", [A0 EXCEPT !.id = id, !.n = n])

AddFind(r) ==
    LET q == reqs[r]
        m == BookById(q.a.id)
    IN  /\ q.pc = "a_find"
        /\ IF m = {}
           THEN reqs' = [reqs EXCEPT ![r] = Done(q, 404)]
           ELSE \E b \in m :
                reqs' = [reqs EXCEPT ![r].pc = "a_insert", ![r].l.book = b.id,
                                     ![r].l.isbn = b.isbn, ![r].l.total = b.totalCopies,
                                     ![r].l.avail = b.availableCopies]
        /\ UNCHANGED <<books, copies, txns, nextId, ctl>>

AddInsert(r) ==
    LET q == reqs[r]
        ns == Range(q.l.total + 1, q.a.n)
    IN  /\ q.pc = "a_insert"
        /\ InsertMany(q.l.book, q.l.isbn, ns)
        /\ reqs' = [reqs EXCEPT ![r] =
                IF InsertThrows(q.l.isbn, ns) THEN Catch(q)
                ELSE [q EXCEPT !.pc = "a_save", !.l.total = @ + q.a.n, !.l.avail = @ + q.a.n]]
        /\ UNCHANGED <<books, txns, ctl>>

AddSave(r) ==
    LET q == reqs[r] IN
    /\ q.pc = "a_save"
    /\ books' = {IF b.id = q.l.book
                 THEN [b EXCEPT !.totalCopies = q.l.total, !.availableCopies = q.l.avail]
                 ELSE b : b \in books}
    /\ reqs' = [reqs EXCEPT ![r] = IF BookById(q.l.book) = {} THEN Catch(q) ELSE Done(q, 200)]
    /\ UNCHANGED <<copies, txns, nextId, ctl>>

\* ------------------------------------------------------------ deleteCopy
StartDeleteCopy(r, id) ==
    Begin(r, "deleteCopy", "dc_find", [A0 EXCEPT !.id = id])

DeleteCopyFind(r) ==
    LET q == reqs[r]
        m == CopyById(q.a.id)
    IN  /\ q.pc = "dc_find"
        /\ IF m = {}
           THEN reqs' = [reqs EXCEPT ![r] = Done(q, 404)]
           ELSE \E c \in m :
                reqs' = [reqs EXCEPT ![r].pc = "dc_book", ![r].l.copy = c.id,
                                     ![r].l.cstatus = c.status, ![r].l.book = c.book]
        /\ UNCHANGED <<books, copies, txns, nextId, ctl>>

\* Book.findById(copy.book): l.book becomes 0 when there is no such book
DeleteCopyBook(r) ==
    LET q == reqs[r]
        m == BookById(q.l.book)
    IN  /\ q.pc = "dc_book"
        /\ IF m = {}
           THEN reqs' = [reqs EXCEPT ![r].pc = "dc_del", ![r].l.book = 0]
           ELSE \E b \in m :
                reqs' = [reqs EXCEPT ![r].pc = "dc_del", ![r].l.total = b.totalCopies,
                                     ![r].l.avail = b.availableCopies]
        /\ UNCHANGED <<books, copies, txns, nextId, ctl>>

DeleteCopyDelete(r) ==
    LET q == reqs[r] IN
    /\ q.pc = "dc_del"
    /\ copies' = {c \in copies : c.id # q.a.id}
    /\ reqs' = [reqs EXCEPT ![r] =
            IF q.l.book = 0 THEN Done(q, 200)
            ELSE [q EXCEPT !.pc = "dc_save", !.l.total = @ - 1,
                           !.l.avail = IF q.l.cstatus = "Available" THEN @ - 1 ELSE @,
                           !.l.dirtyA = (q.l.cstatus = "Available")]]
    /\ UNCHANGED <<books, txns, nextId, ctl>>

DeleteCopySave(r) ==
    LET q == reqs[r] IN
    /\ q.pc = "dc_save"
    /\ books' = {IF b.id = q.l.book
                 THEN [b EXCEPT !.totalCopies = q.l.total,
                                !.availableCopies = IF q.l.dirtyA THEN q.l.avail ELSE @]
                 ELSE b : b \in books}
    /\ reqs' = [reqs EXCEPT ![r] = IF BookById(q.l.book) = {} THEN Catch(q) ELSE Done(q, 200)]
    /\ UNCHANGED <<copies, txns, nextId, ctl>>

\* ------------------------------------------------------ updateCopyStatus
StartUpdateStatus(r, id, st) ==
    Begin(r, "updateCopyStatus", "us_find", [A0 EXCEPT !.id = id, !.status = st])

UpdateStatusFind(r) ==
    LET q == reqs[r]
        m == CopyById(q.a.id)
    IN  /\ q.pc = "us_find"
        /\ IF m = {}
           THEN reqs' = [reqs EXCEPT ![r] = Done(q, 404)]
           ELSE \E c \in m :
                reqs' = [reqs EXCEPT ![r].pc = "us_book", ![r].l.copy = c.id,
                                     ![r].l.cstatus = c.status, ![r].l.book = c.book]
        /\ UNCHANGED <<books, copies, txns, nextId, ctl>>

\* the change of book.availableCopies for a copy going from status old to status new
AvailableDelta(old, new) ==
    IF old = "Available" /\ new # "Available" THEN 0 - 1
    ELSE IF old # "Available" /\ new = "Available" THEN 1
    ELSE 0

\* Book.findById(copy.book), then the "Handle Available Logic" branches;
\* book.availableCopies of a null book is a TypeError
UpdateStatusBook(r) ==
    LET q == reqs[r]
        m == BookById(q.l.book)
        d == AvailableDelta(q.l.cstatus, q.a.status)
    IN  /\ q.pc = "us_book"
        /\ IF m = {}
           THEN reqs' = [reqs EXCEPT ![r] =
                    IF d # 0 THEN Catch(q) ELSE [q EXCEPT !.pc = "us_copysave", !.l.book = 0]]
           ELSE \E b \in m :
                reqs' = [reqs EXCEPT ![r].pc = "us_copysave",
                                     ![r].l.avail = b.availableCopies + d,
                                     ![r].l.dirtyA = (d # 0)]
        /\ UNCHANGED <<books, copies, txns, nextId, ctl>>

\* copy.save(): a write only when the status was changed; then book.save() is
\* called, a TypeError on a null book
UpdateStatusCopySave(r) ==
    LET q == reqs[r]
        changed == q.a.status # q.l.cstatus
    IN  /\ q.pc = "us_copysave"
        /\ copies' = IF changed THEN SetCopyStatus(copies, q.l.copy, q.a.status) ELSE copies
        /\ reqs' = [reqs EXCEPT ![r] =
                IF changed /\ CopyById(q.l.copy) = {} THEN Catch(q)
                ELSE IF q.l.book = 0 THEN Catch(q)
                ELSE [q EXCEPT !.pc = "us_booksave"]]
        /\ UNCHANGED <<books, txns, nextId, ctl>>

UpdateStatusBookSave(r) ==
    LET q == reqs[r] IN
    /\ q.pc = "us_booksave"
    /\ books' = {IF b.id = q.l.book /\ q.l.dirtyA
                 THEN [b EXCEPT !.availableCopies = q.l.avail] ELSE b : b \in books}
    /\ reqs' = [reqs EXCEPT ![r] =
            IF q.l.dirtyA /\ BookById(q.l.book) = {} THEN Catch(q) ELSE Done(q, 200)]
    /\ UNCHANGED <<copies, txns, nextId, ctl>>

\* --------------------------------------------------- collectFine, editFine
StartCollectFine(r, id) ==
    Begin(r, "collectFine", "f_find", [A0 EXCEPT !.id = id])

StartEditFine(r, id, amount) ==
    Begin(r, "editFine", "f_find", [A0 EXCEPT !.id = id, !.n = amount])

FineFind(r) ==
    LET q == reqs[r] IN
    /\ q.pc = "f_find"
    /\ reqs' = [reqs EXCEPT ![r] =
            IF TxnById(q.a.id) = {} THEN Done(q, 404)
            ELSE [q EXCEPT !.pc = "f_save", !.l.txn = q.a.id]]
    /\ UNCHANGED <<books, copies, txns, nextId, ctl>>

\* transaction.save() after isFinePaid = true (collectFine) or fine = amount (editFine)
FineSave(r) ==
    LET q == reqs[r] IN
    /\ q.pc = "f_save"
    /\ txns' = {IF t.id # q.l.txn THEN t
                ELSE IF q.op = "collectFine" THEN [t EXCEPT !.isFinePaid = TRUE]
                ELSE [t EXCEPT !.fine = q.a.n] : t \in txns}
    /\ reqs' = [reqs EXCEPT ![r] = Done(q, 200)]
    /\ collected' = IF q.op = "collectFine" THEN collected \cup {q.l.txn} ELSE collected
    /\ UNCHANGED <<books, copies, nextId, started, faults, now, tz, seq, pre>>

\* ---------------------------------------------------------------- faults
\* the steps that end in a database call
DbSteps ==
    {"i_config", "i_student", "i_count", "i_mark", "i_book", "i_markisbn", "i_dec",
     "i_create", "i_rollback",
     "r_config", "r_txn", "r_check", "r_save", "r_copy", "r_find", "r_inc",
     "c_dept", "c_isbn", "c_save", "c_copies", "u_dept", "u_update",
     "d_copies", "d_book",
     "up_depts", "up_find", "up_new", "up_exists", "up_insert", "up_save",
     "a_find", "a_insert", "a_save", "dc_find", "dc_book", "dc_del", "dc_save",
     "us_find", "us_book", "us_copysave", "us_booksave", "f_find", "f_save"}

Throw(r) ==
    /\ faults < MaxFaults
    /\ reqs[r].pc \in DbSteps
    /\ faults' = faults + 1
    /\ reqs' = [reqs EXCEPT ![r] = Catch(reqs[r])]
    /\ UNCHANGED <<books, copies, txns, nextId, started, now, tz, seq, pre, collected>>

\* an hour passes; a request takes less than an hour and reads the clock once
Tick ==
    /\ Quiet
    /\ now + 1 < 24 * MaxDays
    /\ now' = now + 1
    /\ UNCHANGED <<books, copies, txns, nextId, reqs, started, faults, tz, seq, pre, collected>>

\* ---------------------------------------------------------- initial states
\* the store createBook leaves for isbn 1 with q copies
Catalog(q) ==
    /\ books = {[id |-> 1, isbn |-> 1, totalCopies |-> q, availableCopies |-> q]}
    /\ copies = {[id |-> 1 + i, book |-> 1, copyNumber |-> CopyNumber(1, i),
                  status |-> "Available"] : i \in 1..q}
    /\ txns = {}
    /\ nextId = q + 2

\* the store after issueBook has then issued copy 1-1 to student 1 at hour 0
Loaned(q) ==
    /\ books = {[id |-> 1, isbn |-> 1, totalCopies |-> q, availableCopies |-> q - 1]}
    /\ copies = {[id |-> 1 + i, book |-> 1, copyNumber |-> CopyNumber(1, i),
                  status |-> IF i = 1 THEN "Issued" ELSE "Available"] : i \in 1..q}
    /\ txns = {[id |-> q + 2, student |-> 1, book |-> 1, copyId |-> CopyNumber(1, 1),
                dueDate |-> SetDatePlus("fixed", 0, config.issueDaysLimit),
                status |-> "Issued", fine |-> 0, isFinePaid |-> FALSE,
                returnDate |-> NoDate]}
    /\ nextId = q + 3

Fresh ==
    /\ reqs = [r \in Slots |-> Idle]
    /\ started = 0
    /\ faults = 0
    /\ now = 0
    /\ pre = Store
    /\ collected = {}

CopyNumbers == {CopyNumber(1, i) : i \in 1..MaxQuantity}

\* the inputs of the requests
Isbns == {1}
Quantities == 1..MaxQuantity
Statuses == {"Available", "Issued", "Lost"}
BookIds == {b.id : b \in books} \cup {c.book : c \in copies} \cup {0}
CopyIds == {c.id : c \in copies} \cup {0}
TxnIds == {t.id : t \in txns} \cup {0}
Rows == [isbn : Isbns \cup {0}, dept : {1, 2}, n : Quantities]
Files == UNION {[1..k -> Rows] : k \in 1..MaxRows}


\* ------------------------------------- circulation, requests interleaving
InitCirc == Catalog(MaxQuantity) /\ Fresh /\ tz = "fixed" /\ seq = FALSE

CircStep(r) ==
    \/ IssueConfig(r) \/ IssueStudent(r) \/ IssueCount(r) \/ IssueMark(r)
    \/ IssueFindBook(r) \/ IssueMarkIsbn(r) \/ IssueDec(r) \/ IssueCreate(r)
    \/ IssueRollback(r)
    \/ ReturnConfig(r) \/ ReturnFindTxn(r) \/ ReturnCheck(r) \/ ReturnSave(r)
    \/ ReturnCopy(r) \/ ReturnFindCopy(r) \/ ReturnInc(r)
    \/ Throw(r)

NextCirc ==
    \E r \in Slots :
        \/ \E s \in {1, 2}, cn \in CopyNumbers : StartIssue(r, s, cn, 0)
        \/ \E s \in {1, 2} : StartIssue(r, s, NoCopy, 1)
        \/ \E cn \in CopyNumbers : StartReturn(r, cn)
        \/ CircStep(r)

SpecCirc == InitCirc /\ [][NextCirc]_vars

\* ----------------------------------------- all handlers, one at a time
Empty ==
    /\ books = {}
    /\ copies = {}
    /\ txns = {}
    /\ nextId = 1

Init ==
    /\ Empty \/ \E q \in 1..MaxQuantity : Catalog(q) \/ Loaned(q)
    /\ Fresh /\ tz = "fixed" /\ seq = TRUE


Start(r) ==
    \/ \E s \in StudentIds, cn \in CopyNumbers : StartIssue(r, s, cn, 0)
    \/ \E s \in StudentIds, isbn \in Isbns \cup {2} : StartIssue(r, s, NoCopy, isbn)
    \/ \E cn \in CopyNumbers : StartReturn(r, cn)
    \/ \E isbn \in Isbns, d \in {1, 2}, n \in Quantities : StartCreate(r, isbn, d, n)
    \/ \E id \in BookIds, d \in {0, 1, 2} : StartUpdateBook(r, id, d)
    \/ \E id \in BookIds : StartDeleteBook(r, id)
    \/ \E ids \in SUBSET BookIds : StartBulkDelete(r, ids)
    \/ BulkDeleteNone(r)
    \/ \E rows \in Files : StartUpload(r, rows)
    \/ UploadNoFile(r)
    \/ \E id \in BookIds, n \in Quantities : StartAddCopies(r, id, n)
    \/ \E id \in CopyIds : StartDeleteCopy(r, id)
    \/ \E id \in CopyIds, st \in Statuses : StartUpdateStatus(r, id, st)
    \/ \E id \in TxnIds : StartCollectFine(r, id)
    \/ \E id \in TxnIds, amount \in {0, FinePerDay} : StartEditFine(r, id, amount)

BookStep(r) ==
    \/ CreateDept(r) \/ CreateIsbn(r) \/ CreateSave(r) \/ CreateCopies(r)
    \/ UpdateDept(r) \/ UpdateBook(r)
    \/ DeleteCopiesOf(r) \/ DeleteBooks(r)
    \/ UploadDepts(r) \/ UploadFind(r) \/ UploadNew(r) \/ UploadExists(r)
    \/ UploadInsert(r) \/ UploadSave(r)
    \/ AddFind(r) \/ AddInsert(r) \/ AddSave(r)
    \/ DeleteCopyFind(r) \/ DeleteCopyBook(r) \/ DeleteCopyDelete(r) \/ DeleteCopySave(r)
    \/ UpdateStatusFind(r) \/ UpdateStatusBook(r) \/ UpdateStatusCopySave(r)
    \/ UpdateStatusBookSave(r)
    \/ FineFind(r) \/ FineSave(r)

Next == \E r \in Slots : Start(r) \/ CircStep(r) \/ BookStep(r)

Spec == Init /\ [][Next]_vars

\* ------------------------- one loan over the days, in either time zone
InitFine == Catalog(1) /\ Fresh /\ tz \in {"fixed", "dst"} /\ seq = TRUE

NextFine ==
    \/ Tick
    \/ \E r \in Slots :
        \/ txns = {} /\ StartIssue(r, 1, CopyNumber(1, 1), 0)
        \/ StartReturn(r, CopyNumber(1, 1))
        \/ IssueConfig(r) \/ IssueStudent(r) \/ IssueCount(r) \/ IssueMark(r)
        \/ IssueDec(r) \/ IssueCreate(r)
        \/ ReturnConfig(r) \/ ReturnFindTxn(r) \/ ReturnCheck(r) \/ ReturnSave(r)
        \/ ReturnCopy(r) \/ ReturnFindCopy(r) \/ ReturnInc(r)

SpecFine == InitFine /\ [][NextFine]_vars

\* ------------- deleting a book while copies are added, requests interleaving
InitDelete == Catalog(1) /\ Fresh /\ tz = "fixed" /\ seq = FALSE

NextDelete ==
    \E r \in Slots :
        \/ StartDeleteBook(r, 1)
        \/ StartBulkDelete(r, {1})
        \/ \E n \in Quantities : StartAddCopies(r, 1, n)
        \/ \E n \in Quantities : StartUpload(r, <<[isbn |-> 1, dept |-> 1, n |-> n]>>)
        \/ DeleteCopiesOf(r) \/ DeleteBooks(r)
        \/ AddFind(r) \/ AddInsert(r) \/ AddSave(r)
        \/ UploadDepts(r) \/ UploadFind(r) \/ UploadNew(r) \/ UploadExists(r)
        \/ UploadInsert(r) \/ UploadSave(r)

SpecDelete == InitDelete /\ [][NextDelete]_vars

\* ------- copy management and issueBook on one book, requests interleaving,
\* no database call failing
InitCounters == Catalog(MaxQuantity) /\ Fresh /\ tz = "fixed" /\ seq = FALSE

NextCounters ==
    \E r \in Slots :
        \/ \E s \in {1, 2}, cn \in CopyNumbers : StartIssue(r, s, cn, 0)
        \/ \E id \in CopyIds \ {0}, st \in Statuses : StartUpdateStatus(r, id, st)
        \/ StartAddCopies(r, 1, 1)
        \/ \E id \in CopyIds \ {0} : StartDeleteCopy(r, id)
        \/ IssueConfig(r) \/ IssueStudent(r) \/ IssueCount(r) \/ IssueMark(r)
        \/ IssueDec(r) \/ IssueCreate(r)
        \/ UpdateStatusFind(r) \/ UpdateStatusBook(r) \/ UpdateStatusCopySave(r)
        \/ UpdateStatusBookSave(r)
        \/ AddFind(r) \/ AddInsert(r) \/ AddSave(r)
        \/ DeleteCopyFind(r) \/ DeleteCopyBook(r) \/ DeleteCopyDelete(r)
        \/ DeleteCopySave(r)

SpecCounters == InitCounters /\ [][NextCounters]_vars

\* ------ the handlers that reject with 400 or 404 after reads, one at a time
StartRejecting(r) ==
    \/ \E s \in StudentIds, cn \in CopyNumbers : StartIssue(r, s, cn, 0)
    \/ \E s \in StudentIds, isbn \in Isbns \cup {2} : StartIssue(r, s, NoCopy, isbn)
    \/ \E cn \in CopyNumbers : StartReturn(r, cn)
    \/ \E isbn \in Isbns, d \in {1, 2}, n \in Quantities : StartCreate(r, isbn, d, n)
    \/ \E id \in BookIds, n \in Quantities : StartAddCopies(r, id, n)
    \/ \E id \in CopyIds : StartDeleteCopy(r, id)
    \/ \E id \in CopyIds, st \in Statuses : StartUpdateStatus(r, id, st)

NextReject ==
    \E r \in Slots :
        \/ StartRejecting(r)
        \/ CircStep(r)
        \/ CreateDept(r) \/ CreateIsbn(r) \/ CreateSave(r) \/ CreateCopies(r)
        \/ AddFind(r) \/ AddInsert(r) \/ AddSave(r)
        \/ DeleteCopyFind(r) \/ DeleteCopyBook(r) \/ DeleteCopyDelete(r)
        \/ DeleteCopySave(r)
        \/ UpdateStatusFind(r) \/ UpdateStatusBook(r) \/ UpdateStatusCopySave(r)
        \/ UpdateStatusBookSave(r)

SpecReject == Init /\ [][NextReject]_vars

\* ------------------------------------------------------------------ claims
ReturnsFor(cn) == {r \in Slots : reqs[r].op = "returnBook" /\ reqs[r].a.copyId = cn}
TxnsFor(cn) == {t \in txns : t.copyId = cn}

\* C1: in every state every student has at most config.maxBooksPerStudent
\* transactions with status 'Issued'.
C1_BorrowLimit ==
    \A s \in DOMAIN Users : ActiveCount(s) <= config.maxBooksPerStudent

\* C2: of the issueBook requests for one Available copy that run together (no
\* returnBook for the copy among them), at most one marks the copy Issued and
\* creates a transaction.
C2_AtomicIssue ==
    \A cn \in CopyNumbers :
        ReturnsFor(cn) = {} => Cardinality(TxnsFor(cn)) <= 1

\* C9: after a single issue of a copy at most one returnBook for it is answered
\* 'Book Returned Successfully', and availableCopies is incremented once, so it
\* never exceeds totalCopies.
C9_ReturnedOnce ==
    /\ \A cn \in CopyNumbers :
            Cardinality(TxnsFor(cn)) = 1 =>
                Cardinality({r \in ReturnsFor(cn) : reqs[r].resp = 200}) <= 1
    /\ \A b \in books : b.availableCopies <= b.totalCopies

\* C4: a returned transaction's fine is finePerDay for each calendar day by which
\* the return day is after the due day, 0 for a return on or before the due
\* day, and isFinePaid is true exactly when the fine is 0.
DaysLate(t) == LocalDay(tz, t.returnDate) - LocalDay(tz, t.dueDate)
C4_FinePerDay ==
    \A t \in txns :
        t.status = "Returned" =>
            /\ t.fine = (IF DaysLate(t) > 0 THEN DaysLate(t) * config.finePerDay ELSE 0)
            /\ t.isFinePaid = (t.fine = 0)

\* every book's counters agree with its BookCopy documents
Consistent ==
    \A b \in books :
        /\ b.availableCopies =
                Cardinality({c \in copies : c.book = b.id /\ c.status = "Available"})
        /\ b.totalCopies = Cardinality({c \in copies : c.book = b.id})

\* C3: whenever no request is in progress, after requests executed one at a time
\* (none of whose database calls failed), availableCopies is the number of the
\* book's Available copies and totalCopies the number of its copies.
C3_CountersConsistent == (seq /\ Quiet /\ faults = 0) => Consistent

\* C5: an issueBook request answered 500 leaves copies, books and transactions
\* as they were before the request.
C5_RollbackRestores ==
    \A r \in Slots :
        (seq /\ reqs[r].op = "issueBook" /\ reqs[r].pc = "done" /\ reqs[r].resp = 500)
            => Store = pre

\* C7: a handler that has ended has sent exactly one response, a success or a
\* 400/404/500.
C7_OneResponse ==
    \A r \in Slots :
        reqs[r].pc \in {"done", "crashed"} =>
            reqs[r].sent = 1 /\ reqs[r].resp \in {200, 201, 400, 404, 500}

\* C8: a request of issueBook, returnBook, createBook, addCopies, deleteCopy or
\* updateCopyStatus answered 400 or 404 leaves books, copies and transactions as
\* they were before the request.
RejectingOps ==
    {"issueBook", "returnBook", "createBook", "addCopies", "deleteCopy", "updateCopyStatus"}
C8_RejectedChangesNothing ==
    \A r \in Slots :
        (seq /\ reqs[r].op \in RejectingOps /\ reqs[r].pc = "done"
             /\ reqs[r].resp \in {400, 404})
            => Store = pre
\* an issueBook for a copy that is not Available has been answered 400
C8_Witness ==
    \E r \in Slots :
        /\ reqs[r].op = "issueBook" /\ reqs[r].pc = "done" /\ reqs[r].resp = 400
        /\ reqs[r].a.student \in {1, 2} /\ ActiveCount(reqs[r].a.student) = 0
        /\ \E c \in copies : c.copyNumber = reqs[r].a.copyId /\ c.status # "Available"

\* C6: once a deleteBook or bulkDeleteBooks request has answered success and no
\* request is in progress, no BookCopy document references a book it deleted.
C6_CascadeDelete ==
    \A r \in Slots :
        (Quiet /\ reqs[r].op \in {"deleteBook", "bulkDeleteBooks"} /\ reqs[r].resp = 200)
            => \A c \in copies : c.book \notin reqs[r].a.ids

\* C10: when copy-management and issueBook requests on one book have interleaved
\* and ended, the book's counters are those of its copies, as after running the
\* requests one after the other: no counter update is lost.
C10_NoLostUpdate == (~seq /\ Quiet) => Consistent

\* ---- issueBook, returnBook, updateCopyStatus and deleteCopy, one at a time,
\* no database call failing
NextAgree ==
    \E r \in Slots :
        \/ \E s \in {1, 2}, cn \in CopyNumbers : StartIssue(r, s, cn, 0)
        \/ \E s \in {1, 2} : StartIssue(r, s, NoCopy, 1)
        \/ \E cn \in CopyNumbers : StartReturn(r, cn)
        \/ \E id \in CopyIds, st \in Statuses : StartUpdateStatus(r, id, st)
        \/ \E id \in CopyIds : StartDeleteCopy(r, id)
        \/ IssueConfig(r) \/ IssueStudent(r) \/ IssueCount(r) \/ IssueMark(r)
        \/ IssueFindBook(r) \/ IssueMarkIsbn(r) \/ IssueDec(r) \/ IssueCreate(r)
        \/ ReturnConfig(r) \/ ReturnFindTxn(r) \/ ReturnCheck(r) \/ ReturnSave(r)
        \/ ReturnCopy(r) \/ ReturnFindCopy(r) \/ ReturnInc(r)
        \/ UpdateStatusFind(r) \/ UpdateStatusBook(r) \/ UpdateStatusCopySave(r)
        \/ UpdateStatusBookSave(r)
        \/ DeleteCopyFind(r) \/ DeleteCopyBook(r) \/ DeleteCopyDelete(r)
        \/ DeleteCopySave(r)

SpecAgree == Init /\ [][NextAgree]_vars

\* the transactions with status 'Issued' that refer to copyNumber cn
IssuedTxns(cn) == {t \in txns : t.copyId = cn /\ t.status = "Issued"}

\* C11: whenever no request is in progress, every copyNumber has at most one
\* transaction with status 'Issued', and has exactly one if and only if the
\* copy exists with status 'Issued'.
C11_StatusAgrees ==
    Quiet =>
        \A cn \in CopyNumbers :
            /\ Cardinality(IssuedTxns(cn)) <= 1
            /\ Cardinality(IssuedTxns(cn)) = 1
                    <=> (\E c \in CopyByNumber(cn) : c.status = "Issued")

\* C12: a returnBook request that has ended with 400, 404 or 500 leaves the
\* transactions of its copy as they were before the request (status, returnDate,
\* fine and isFinePaid), also when the copy record was deleted meanwhile.
C12_FailedReturnKeepsTxn ==
    \A r \in Slots :
        (seq /\ reqs[r].op = "returnBook" /\ reqs[r].pc = "done"
             /\ reqs[r].resp \in {400, 404, 500})
            => {t \in txns : t.copyId = reqs[r].a.copyId}
                    = {t \in pre.txns : t.copyId = reqs[r].a.copyId}

\* ------- loans, returns and the fine handlers over the days, one at a time,
\* no database call failing
InitUnpaid == (Catalog(1) \/ Loaned(1)) /\ Fresh /\ tz = "fixed" /\ seq = TRUE

NextUnpaid ==
    \/ Tick
    \/ \E r \in Slots :
        \/ StartIssue(r, 1, CopyNumber(1, 1), 0)
        \/ StartReturn(r, CopyNumber(1, 1))
        \/ \E id \in TxnIds : StartCollectFine(r, id)
        \/ \E id \in TxnIds, amount \in {0, FinePerDay} : StartEditFine(r, id, amount)
        \/ IssueConfig(r) \/ IssueStudent(r) \/ IssueCount(r) \/ IssueMark(r)
        \/ IssueDec(r) \/ IssueCreate(r)
        \/ ReturnConfig(r) \/ ReturnFindTxn(r) \/ ReturnCheck(r) \/ ReturnSave(r)
        \/ ReturnCopy(r) \/ ReturnFindCopy(r) \/ ReturnInc(r)
        \/ FineFind(r) \/ FineSave(r)

SpecUnpaid == InitUnpaid /\ [][NextUnpaid]_vars

\* Transaction.find({ fine: { $gt: 0 }, isFinePaid: false })
getUnpaidFines == {t \in txns : t.fine > 0 /\ t.isFinePaid = FALSE}

\* C13: in every reachable state, a transaction whose fine is greater than 0 and
\* on which collectFine has never succeeded has isFinePaid = false, and so is in
\* the result of getUnpaidFines.
C13_OwedFineListed ==
    \A t \in txns :
        (t.fine > 0 /\ t.id \notin collected) => t \in getUnpaidFines

====
